---- MODULE Spec2Model ----
(***************************************************************************)
(* A model of the scraping core of the repository:                         *)
(*   - AsyncScraper.collect_all_data   (src/scraper/async_scraper.py)      *)
(*   - AsyncScraper.fetch_with_retry   (src/scraper/async_scraper.py)      *)
(*   - ProxyManager                    (src/scraper/proxy_manager.py)      *)
(*   - BaseScraper._retry_request      (src/scraper/base_scraper.py)       *)
(*   - AlternativeSearch.search_all    (src/scraper/alternative_search.py) *)
(*   - the keyword taggers             (async_scraper.py,                  *)
(*                                      glassdoor_scraper.py)              *)
(* The specifications share the variables: Spec (the task scheduler of     *)
(* collect_all_data), PoolSpec (the operations of the proxy pool),         *)
(* FetchSpec (the two retrying fetch clients over the proxy pool),         *)
(* RaceSpec (threads evicting from the pool at the same time), SearchSpec  *)
(* (search_all over its three backends) and TagSpec (the taggers).         *)
(***************************************************************************)
EXTENDS Integers, Sequences, FiniteSets, TLC

VARIABLES
    \* ---- AsyncScraper.collect_all_data
    target_count,     \* self.target_count
    pending,          \* bounded_task coroutines waiting for the semaphore
    running,          \* bounded_task coroutines holding the semaphore
    finished,         \* completed tasks whose result the loop has not awaited yet
    consumed,         \* completions the for-loop has awaited (enumerate index)
    results,          \* the local list `results`
    collected_posts,  \* self.collected_posts
    pc,               \* "loop", "done" (returned) or "raised"
    earlyExit,        \* history: the loop was left by `break`
    lastEvent,        \* history: what the last awaited completion was
    lastBatchLen,     \* history: length of the last batch that was extended
    \* ---- ProxyManager (the proxy_manager singleton) and its environment
    working_proxies,  \* self.working_proxies, a list of proxy dicts
    last_fetch,       \* self.last_fetch; NoTime stands for None
    file,             \* working_proxies.json: [ok, data]
    disk_ok,          \* whether working_proxies.json can be written
    now,              \* datetime.now(), in hours
    listed,           \* the candidates the proxy-list sources currently supply
    evicted,          \* history: proxies given to remove_proxy since the last refresh
    healthy,          \* history: proxies that passed test_proxy and were not evicted since
    refreshed,        \* history: whether the last pool operation ran refresh_proxies
    removed,          \* history: the argument of the last remove_proxy (<<>> after another operation)
    returned,         \* history: what the last get_proxy returned (<<>> is None)
    lastOp,           \* history: the last pool operation
    \* ---- BaseScraper._retry_request / AsyncScraper.fetch_with_retry
    client,           \* "base" (_retry_request) or "async" (fetch_with_retry)
    use_proxy,        \* self.use_proxy
    proxy_url,        \* self.proxy_url, a string as its tokens (<<>> is '')
    max_retries,      \* self.max_retries / the max_retries argument
    fails,            \* the network: how the successive requests fail before one succeeds
    attempt,          \* the loop variable `attempt`
    rq_pc,            \* "head" (top of the for-loop), "send" or "done"
    proxies,          \* the local `proxies` of this attempt (<<>> is None)
    kwargs_proxies,   \* kwargs['proxies'] (<<>> when the key is absent)
    rq_result,        \* "pending", "response" or "none" (None returned)
    sent,             \* history: the requests sent, [outcome, via, chosen]
    slept,            \* history: the back-off sleeps, [attempt, secs]
    start_pool,       \* history: the working set when the fetch began
    paced,            \* the pause of _rate_limit in this attempt, <<secs>> (<<>>: not yet)
    \* ---- threads calling proxy_manager.remove_proxy at the same time
    t_pc,             \* per thread: "start", "built" (new list built) or "done"
    t_arg,            \* per thread: the argument `proxy`
    t_list,           \* per thread: the list the comprehension has built
    \* ---- AlternativeSearch.search_all
    num_results,      \* the argument num_results
    pages,            \* the network: the results each backend has for the query
    all_results,      \* the local list `all_results`
    sa_pc,            \* "ddg", "searx", "startpage", "dedup" or "done"
    queried,          \* history: the backends queried, [backend, total, asked]
    unique_results,   \* the returned list
    \* ---- the taggers of search results
    snippet,          \* result['snippet'], a string as its tokens
    title,            \* result['title'], a string as its tokens
    keyword,          \* the argument `keyword` / `company`
    review_url,       \* whether result['url'] is a glassdoor.com /Reviews/ url
    tg_pc,            \* "call" or "done"
    tagger,           \* history: the function that handled the result
    emitted,          \* whether a record was built for the result
    keywords_found,   \* the record's 'keywords_found'
    \* ---- ProxyManager.fetch_proxies
    sources,          \* the network: what each _fetch_from_* call comes to, [failed, rows]
    unique_proxies,   \* the returned list
    fp_pc,            \* "call" or "done"
    \* ---- GlassdoorScraper.scrape
    gd_pc,            \* "run" or "done"
    gd_step,          \* the searches made so far
    gd_results,       \* the local list `results` of scrape
    proxy_dict,       \* AlternativeSearch.proxy_dict of the last search (<<>> is None)
    bk_err,           \* history: the proxies of a backend request that ended in a ProxyError
    \* ---- BaseScraper.save_results and the database
    db_urls,          \* the urls of the rows of scraped_posts
    db_keywords,      \* the keywords of the rows of keywords
    batch,            \* the argument `results`
    saved_count,      \* the returned count
    sv_calls,         \* history: the save_results calls made
    sv_failed         \* history: whether the last call rolled back

schedVars == <<target_count, pending, running, finished, consumed, results,
               collected_posts, pc, earlyExit, lastEvent, lastBatchLen>>

poolVars == <<working_proxies, last_fetch, file, disk_ok, now, listed, evicted,
              healthy, refreshed, removed, returned, lastOp>>

fetchVars == <<client, use_proxy, proxy_url, max_retries, fails, attempt, rq_pc,
               proxies, kwargs_proxies, rq_result, sent, slept, start_pool, paced>>

raceVars == <<t_pc, t_arg, t_list>>

searchVars == <<num_results, pages, all_results, sa_pc, queried, unique_results>>

tagVars == <<snippet, title, keyword, review_url, tg_pc, tagger, emitted, keywords_found>>

sourceVars == <<sources, unique_proxies, fp_pc>>

glassVars == <<gd_pc, gd_step, gd_results, proxy_dict, bk_err>>

saveVars == <<db_urls, db_keywords, batch, saved_count, sv_calls, sv_failed>>

vars == <<schedVars, poolVars, fetchVars, raceVars, searchVars, tagVars,
          sourceVars, glassVars, saveVars>>

-----------------------------------------------------------------------------
(* Bounds of the model *)

\* number of scheduled tasks (the program schedules 5*10 + 3*10)
NumTasks == 12
\* largest target_count drawn
MaxTarget == 2
\* longest ordinary batch a task returns
MaxBatch == 2
\* most candidates that pass validation in one refresh
MaxPool == 2
\* last hour of the clock
MaxTime == 3
\* largest max_retries drawn
MaxRetries == 3
\* most results one search backend has for a query
MaxHits == 2
\* largest num_results drawn
MaxWanted == 3
\* longest snippet drawn, in tokens
MaxWords == 3
\* most proxies one proxy-list source returns
MaxRows == 2
\* most records one search of a scrape run contributes
MaxFound == 1
\* most save_results calls made with one batch
MaxSaves == 2

(* Program constants *)

\* asyncio.Semaphore(10)
SemaphoreCap == 10
\* self.fetch_interval = timedelta(hours=1)
FetchInterval == 1
\* wait_time = (attempt + 1) * 5
RateLimitUnit == 5
\* self.rate_limit_delay = float(os.getenv('RATE_LIMIT_DELAY', 2))
RateLimitDelay == 2
\* random.uniform(0, 1): the ends of the range
Jitters == { 0, 1 }

-----------------------------------------------------------------------------
(* Records and batches *)

\* Posts as parse_linkedin_result / parse_glassdoor_result build them; two
\* different posts may carry the same url.
Posts == { [url |-> "a", title |-> 1],
           [url |-> "a", title |-> 2],
           [url |-> "b", title |-> 1] }

RECURSIVE SeqsUpTo(_, _)
SeqsUpTo(S, n) ==
    IF n = 0 THEN { <<>> }
    ELSE LET shorter == SeqsUpTo(S, n - 1)
         IN  shorter \cup { Append(s, x) : s \in { t \in shorter : Len(t) = n - 1 }, x \in S }

\* One task returning more posts than the semaphore admits tasks.
BigBatch == [k \in 1..(SemaphoreCap + 1) |-> [url |-> "a", title |-> 1]]

\* What one collect_linkedin_posts / collect_glassdoor_reviews call may return.
Batches == SeqsUpTo(Posts, MaxBatch) \cup { BigBatch }

Urls(posts) == { posts[k].url : k \in DOMAIN posts }

-----------------------------------------------------------------------------
(* collect_all_data: the pure parts *)

\* lines 308-313: every element of `results` is a post (a non-empty dict, not a
\* list), so each one is appended.
RECURSIVE Flatten(_)
Flatten(res) ==
    IF res = <<>> THEN <<>>
    ELSE <<Head(res)>> \o Flatten(Tail(res))

\* lines 316-322: keep a post when its url has not been seen.
RECURSIVE DedupFrom(_, _)
DedupFromKeepAll(posts, seen) == posts
DedupFrom(posts, seen) ==
    IF posts = <<>> THEN <<>>
    ELSE IF Head(posts).url \notin seen
         THEN <<Head(posts)>> \o DedupFrom(Tail(posts), seen \cup { Head(posts).url })
         ELSE DedupFrom(Tail(posts), seen)

UniquePosts(res) == DedupFrom(Flatten(res), {})

\* line 324: unique_posts[:self.target_count]
Slice(s, n) == SubSeq(s, 1, IF Len(s) < n THEN Len(s) ELSE n)

Finalize(res, t) == Slice(UniquePosts(res), t)

\* line 301: len(results) >= self.target_count
EnoughStrict(res, t) == Len(res) > t
Enough(res, t) == Len(res) >= t

\* the for-loop over as_completed ends when every task has been awaited
ExhaustedNever(c) == c = NumTasks + 1
Exhausted(c) == c = NumTasks

-----------------------------------------------------------------------------
(* collect_all_data: the actions *)

SchedInit ==
    /\ target_count \in 1..MaxTarget
    /\ pending = NumTasks
    /\ running = 0
    /\ finished = 0
    /\ consumed = 0
    /\ results = <<>>
    /\ collected_posts = <<>>
    /\ pc = "loop"
    /\ earlyExit = FALSE
    /\ lastEvent = "none"
    /\ lastBatchLen = 0

\* lines 283-285: `async with semaphore` admits a task while a slot is free
SlotFreeAlways == TRUE
SlotFree == running < SemaphoreCap

\* bounded_task acquires the semaphore and starts awaiting its task
TaskStart ==
    /\ pending > 0
    /\ SlotFree
    /\ pending' = pending - 1
    /\ running' = running + 1
    /\ UNCHANGED <<target_count, finished, consumed, results, collected_posts,
                   pc, earlyExit, lastEvent, lastBatchLen>>
    /\ UNCHANGED <<poolVars, fetchVars, raceVars, searchVars, tagVars, sourceVars, glassVars, saveVars>>

\* a task returns or raises; leaving `async with` releases the semaphore.
\* Tasks abandoned by the early exit keep running after the return.
TaskFinish ==
    /\ running > 0
    /\ running' = running - 1
    /\ finished' = finished + 1
    /\ UNCHANGED <<target_count, pending, consumed, results, collected_posts,
                   pc, earlyExit, lastEvent, lastBatchLen>>
    /\ UNCHANGED <<poolVars, fetchVars, raceVars, searchVars, tagVars, sourceVars, glassVars, saveVars>>

\* lines 291-302 then 307-327: the next completion is a batch
ConsumeBatch ==
    /\ pc = "loop"
    /\ finished > 0
    /\ \E b \in Batches :
         LET res == results \o b
             stop == Enough(res, target_count)
         IN  /\ results' = res
             /\ lastBatchLen' = Len(b)
             /\ earlyExit' = stop
             /\ IF stop \/ Exhausted(consumed + 1)
                THEN /\ collected_posts' = Finalize(res, target_count)
                     /\ pc' = "done"
                ELSE /\ collected_posts' = collected_posts
                     /\ pc' = "loop"
    /\ finished' = finished - 1
    /\ consumed' = consumed + 1
    /\ lastEvent' = "batch"
    /\ UNCHANGED <<target_count, pending, running>>
    /\ UNCHANGED <<poolVars, fetchVars, raceVars, searchVars, tagVars, sourceVars, glassVars, saveVars>>

\* lines 304-305: the awaited task raised; `except Exception` prints and the
\* loop goes on (the break test is skipped)
TaskRaisedPropagates ==
    /\ results' = results
    /\ collected_posts' = collected_posts
    /\ pc' = "raised"
TaskRaised ==
    /\ results' = results
    /\ IF Exhausted(consumed + 1)
       THEN /\ collected_posts' = Finalize(results, target_count)
            /\ pc' = "done"
       ELSE /\ collected_posts' = collected_posts
            /\ pc' = "loop"

ConsumeException ==
    /\ pc = "loop"
    /\ finished > 0
    /\ TaskRaised
    /\ finished' = finished - 1
    /\ consumed' = consumed + 1
    /\ lastEvent' = "exc"
    /\ UNCHANGED <<target_count, pending, running, earlyExit, lastBatchLen>>
    /\ UNCHANGED <<poolVars, fetchVars, raceVars, searchVars, tagVars, sourceVars, glassVars, saveVars>>

-----------------------------------------------------------------------------
(* ProxyManager *)

\* None of Optional[datetime]
NoTime == -1

\* Proxy dicts by the two fields the pool compares, each a string written as
\* its sequence of tokens.
Candidates == { [ip |-> <<"h1">>, port |-> <<"80">>],
                [ip |-> <<"h1">>, port |-> <<"81">>],
                [ip |-> <<"h2">>, port |-> <<"80">>] }

Range(s) == { s[k] : k \in DOMAIN s }

NoDuplicates(s) == \A m, n \in DOMAIN s : m # n => s[m] # s[n]

\* lines 183-207, 214-217: test_proxies_parallel returns, in completion
\* order, the fetched candidates whose probe succeeded; fetch_proxies supplies
\* each ip:port once.
RefreshOutcomes(S) == { w \in SeqsUpTo(S, MaxPool) : NoDuplicates(w) }

\* the file as a previous run may have left it
NoFile == [ok |-> FALSE, data |-> <<>>]
SavedFiles == { NoFile } \cup { [ok |-> TRUE, data |-> w] : w \in RefreshOutcomes(Candidates) }

\* lines 228-231: the pool is empty, or a refresh time is known and the
\* interval has elapsed since then
NeedsRefresh ==
    \/ working_proxies = <<>>
    \/ (last_fetch # NoTime /\ now - last_fetch > FetchInterval)

\* lines 234-237: random.choice(self.working_proxies), or None
ChoicesAnyCandidate(w) == { <<c>> : c \in Candidates }
Choices(w) ==
    IF w # <<>> THEN { <<w[k]>> : k \in DOMAIN w } ELSE { <<>> }

\* lines 252-255: the entries that differ from `proxy` in ip or in port
RECURSIVE WithoutSameIpOrPort(_, _)
WithoutSameIpOrPort(w, proxy) ==
    IF w = <<>> THEN <<>>
    ELSE IF Head(w).ip # proxy.ip /\ Head(w).port # proxy.port
         THEN <<Head(w)>> \o WithoutSameIpOrPort(Tail(w), proxy)
         ELSE WithoutSameIpOrPort(Tail(w), proxy)
RECURSIVE Without(_, _)
Without(w, proxy) ==
    IF w = <<>> THEN <<>>
    ELSE IF Head(w).ip # proxy.ip \/ Head(w).port # proxy.port
         THEN <<Head(w)>> \o Without(Tail(w), proxy)
         ELSE Without(Tail(w), proxy)

\* lines 257-263: save_proxies writes the list, or fails and leaves the file
SaveProxies(w) == IF disk_ok THEN [ok |-> TRUE, data |-> w] ELSE file

\* lines 265-272: load_proxies reads the list, or takes [] when it cannot
Loaded(f) == IF f.ok THEN f.data ELSE <<>>

\* lines 209-223: refresh_proxies with validation result w
RefreshToMerging(w) ==
    /\ working_proxies' = working_proxies \o w
    /\ last_fetch' = now
    /\ file' = SaveProxies(working_proxies \o w)
    /\ evicted' = {}
    /\ healthy' = healthy \cup Range(w)
    /\ refreshed' = TRUE
RefreshTo(w) ==
    /\ working_proxies' = w
    /\ last_fetch' = now
    /\ file' = SaveProxies(w)
    /\ evicted' = {}
    /\ healthy' = healthy \cup Range(w)
    /\ refreshed' = TRUE

\* lines 225-237: get_proxy returning ret
GetProxyReturning(ret) ==
    IF NeedsRefresh
    THEN \E w \in RefreshOutcomes(listed) :
            /\ RefreshTo(w)
            /\ ret \in Choices(w)
    ELSE /\ ret \in Choices(working_proxies)
         /\ refreshed' = FALSE
         /\ UNCHANGED <<working_proxies, last_fetch, file, evicted, healthy>>

\* lines 250-255: remove_proxy(proxy)
RemoveProxyOf(proxy) ==
    /\ working_proxies' = Without(working_proxies, proxy)
    /\ evicted' = evicted \cup { proxy }
    /\ healthy' = healthy \ { proxy }
    /\ refreshed' = FALSE
    /\ removed' = << proxy >>
    /\ UNCHANGED <<last_fetch, file>>

OptionalProxies == { <<>> } \cup { <<c>> : c \in Candidates }

PoolInit ==
    /\ working_proxies = <<>>
    /\ last_fetch = NoTime
    /\ file \in SavedFiles
    /\ disk_ok \in BOOLEAN
    /\ now = 0
    /\ listed \in { Candidates, { c \in Candidates : c.port = <<"80">> } }
    /\ evicted = {}
    /\ healthy = Range(Loaded(file))
    /\ returned = <<>>
    /\ lastOp = "init"
    /\ refreshed = FALSE
    /\ removed = <<>>

refresh_proxies ==
    /\ \E w \in RefreshOutcomes(listed) : RefreshTo(w)
    /\ returned' = <<>>
    /\ lastOp' = "refresh"
    /\ removed' = <<>>
    /\ UNCHANGED <<disk_ok, now, listed>>
    /\ UNCHANGED <<schedVars, fetchVars, raceVars, searchVars, tagVars, sourceVars,
                   glassVars, saveVars>>

get_proxy ==
    /\ \E ret \in OptionalProxies :
          /\ GetProxyReturning(ret)
          /\ returned' = ret
    /\ lastOp' = "get"
    /\ removed' = <<>>
    /\ UNCHANGED <<disk_ok, now, listed>>
    /\ UNCHANGED <<schedVars, fetchVars, raceVars, searchVars, tagVars, sourceVars,
                   glassVars, saveVars>>

remove_proxy ==
    /\ \E c \in Candidates : RemoveProxyOf(c)
    /\ returned' = <<>>
    /\ lastOp' = "remove"
    /\ UNCHANGED <<disk_ok, now, listed>>
    /\ UNCHANGED <<schedVars, fetchVars, raceVars, searchVars, tagVars, sourceVars,
                   glassVars, saveVars>>

load_proxies ==
    /\ working_proxies' = Loaded(file)
    /\ returned' = <<>>
    /\ lastOp' = "load"
    /\ refreshed' = FALSE
    /\ removed' = <<>>
    /\ UNCHANGED <<last_fetch, file, disk_ok, now, listed, evicted, healthy>>
    /\ UNCHANGED <<schedVars, fetchVars, raceVars, searchVars, tagVars, sourceVars,
                   glassVars, saveVars>>

\* base_scraper.py lines 37-43: a scraper constructed with proxy mode on and
\* no manual proxy loads the saved proxies and refreshes when there are none
NewScraper ==
    /\ IF Loaded(file) = <<>>
       THEN \E w \in RefreshOutcomes(listed) : RefreshTo(w)
       ELSE /\ working_proxies' = Loaded(file)
            /\ refreshed' = FALSE
            /\ UNCHANGED <<last_fetch, file, evicted, healthy>>
    /\ returned' = <<>>
    /\ lastOp' = "construct"
    /\ removed' = <<>>
    /\ UNCHANGED <<disk_ok, now, listed>>
    /\ UNCHANGED <<schedVars, fetchVars, raceVars, searchVars, tagVars, sourceVars,
                   glassVars, saveVars>>

\* time passes
Tick ==
    /\ now < MaxTime
    /\ now' = now + 1
    /\ UNCHANGED <<working_proxies, last_fetch, file, disk_ok, listed, evicted, healthy,
                   refreshed, removed,
                   returned, lastOp>>
    /\ UNCHANGED <<schedVars, fetchVars, raceVars, searchVars, tagVars, sourceVars,
                   glassVars, saveVars>>

PoolNext ==
    \/ refresh_proxies
    \/ get_proxy
    \/ remove_proxy
    \/ load_proxies
    \/ NewScraper
    \/ Tick

\* the pool while another component is studied
PoolIdle ==
    /\ working_proxies = <<>>
    /\ last_fetch = NoTime
    /\ file = NoFile
    /\ disk_ok = TRUE
    /\ now = 0
    /\ listed = {}
    /\ evicted = {}
    /\ healthy = {}
    /\ returned = <<>>
    /\ lastOp = "init"
    /\ refreshed = FALSE
    /\ removed = <<>>

\* the scheduler while another component is studied
SchedIdle ==
    /\ target_count = 1
    /\ pending = 0
    /\ running = 0
    /\ finished = 0
    /\ consumed = 0
    /\ results = <<>>
    /\ collected_posts = <<>>
    /\ pc = "idle"
    /\ earlyExit = FALSE
    /\ lastEvent = "none"
    /\ lastBatchLen = 0

-----------------------------------------------------------------------------
(* The fetch clients *)

\* How a request can fail: an exception for a timeout or a connection error,
\* a 5xx status, a 429 status, a requests ProxyError.
FailKinds == { "timeout", "http5xx", "http429", "proxyerr" }
\* fetch_with_retry sends without a proxy
AsyncFailKinds == { "timeout", "http5xx", "http429" }
Transient == { "timeout", "http5xx" }

\* the outcome of the request of 0-based attempt n sent through `via`; only
\* a request sent through a proxy ends in a ProxyError, the same network
\* failure of a direct request is a connection error
OutcomeOf(n, via) ==
    IF n < Len(fails)
    THEN (IF fails[n + 1] = "proxyerr" /\ via = <<>> THEN "timeout" ELSE fails[n + 1])
    ELSE "ok"

RECURSIVE Pow2(_)
Pow2(n) == IF n = 0 THEN 1 ELSE 2 * Pow2(n - 1)

\* proxy_manager.py lines 244-248: "http://{ip}:{port}" for both schemes
ProxyUrl(proxy) == <<"http", "://">> \o proxy.ip \o <<":">> \o proxy.port
get_proxy_dict(proxy) == [http |-> ProxyUrl(proxy), https |-> ProxyUrl(proxy)]

\* base_scraper.py lines 73-76: the manual proxy for both schemes
ManualProxies == [http |-> proxy_url, https |-> proxy_url]
ManualUrl == <<"http", "://", "m", ":", "9">>

\* str.split(sep): the pieces of s between the occurrences of token sep
RECURSIVE SplitAt(_, _, _)
SplitAt(s, sep, piece) ==
    IF s = <<>> THEN << piece >>
    ELSE IF Head(s) = sep
         THEN << piece >> \o SplitAt(Tail(s), sep, <<>>)
         ELSE SplitAt(Tail(s), sep, Append(piece, Head(s)))
Split(s, sep) == SplitAt(s, sep, <<>>)

\* base_scraper.py lines 121-125: the proxy named by a proxies dict, as a
\* sequence: << [ip, port] >>, or <<>> when the url does not parse
BadProxyOfNone(dict) == <<>>
BadProxyOf(dict) ==
    LET url == dict.http
    IN  IF \E k \in DOMAIN url : url[k] = "://"
        THEN LET parts == Split(Split(url, "://")[2], ":")
             IN  IF Len(parts) = 2
                 THEN << [ip |-> parts[1], port |-> parts[2]] >>
                 ELSE <<>>
        ELSE <<>>

\* base_scraper.py line 94 / async_scraper.py line 42: range(max_retries)
RetryInRangeShort(a, m) == a < m - 1
RetryInRange(a, m) == a < m
FetchInRangeInclusive(a, m) == a <= m
FetchInRange(a, m) == a < m

\* what the request goes through: kwargs['proxies'] when present, else the
\* session's proxies (_setup_session, lines 60-64)
SessionProxies ==
    IF use_proxy /\ proxy_url # <<>> THEN << ManualProxies >> ELSE <<>>
Via(kw) == IF kw # <<>> THEN kw ELSE SessionProxies

\* the state after BaseScraper.__init__ (lines 23-43) and before a fetch
FetchInit ==
    /\ client \in { "base", "async" }
    /\ max_retries \in (-1)..MaxRetries
    /\ fails \in SeqsUpTo(IF client = "base" THEN FailKinds ELSE AsyncFailKinds,
                          max_retries + 1)
    /\ use_proxy \in (IF client = "base" THEN BOOLEAN ELSE { FALSE })
    /\ proxy_url \in (IF use_proxy THEN { <<>>, ManualUrl } ELSE { <<>> })
    /\ listed \in (IF use_proxy /\ proxy_url = <<>>
                   THEN { {}, { c \in Candidates : c.port = <<"80">> } }
                   ELSE { {} })
    /\ working_proxies \in RefreshOutcomes(listed)
    /\ last_fetch \in (IF use_proxy /\ proxy_url = <<>>
                       THEN (IF working_proxies = <<>> THEN { 0 } ELSE { NoTime, 0 })
                       ELSE { NoTime })
    /\ file = NoFile
    /\ disk_ok = FALSE
    /\ now = 0
    /\ evicted = {}
    /\ healthy = Range(working_proxies)
    /\ returned = <<>>
    /\ lastOp = "init"
    /\ refreshed = FALSE
    /\ removed = <<>>
    /\ attempt = 0
    /\ rq_pc = "head"
    /\ proxies = <<>>
    /\ kwargs_proxies = <<>>
    /\ rq_result = "pending"
    /\ sent = <<>>
    /\ slept = <<>>
    /\ start_pool = working_proxies
    /\ paced = <<>>

\* the fetch clients while another component is studied
FetchIdle ==
    /\ client = "base"
    /\ use_proxy = FALSE
    /\ proxy_url = <<>>
    /\ max_retries = 0
    /\ fails = <<>>
    /\ attempt = 0
    /\ rq_pc = "idle"
    /\ proxies = <<>>
    /\ kwargs_proxies = <<>>
    /\ rq_result = "pending"
    /\ sent = <<>>
    /\ slept = <<>>
    /\ start_pool = <<>>
    /\ paced = <<>>

\* base_scraper.py lines 66-83: _get_proxy_for_request returning sel
GetProxyForRequest(sel) ==
    IF ~use_proxy
    THEN /\ sel = <<>>
         /\ UNCHANGED <<working_proxies, last_fetch, file, evicted, healthy, refreshed, removed,
                        returned, lastOp>>
    ELSE IF proxy_url # <<>>
    THEN /\ sel = << ManualProxies >>
         /\ UNCHANGED <<working_proxies, last_fetch, file, evicted, healthy, refreshed, removed,
                        returned, lastOp>>
    ELSE \E ret \in OptionalProxies :
            /\ GetProxyReturning(ret)
            /\ returned' = ret
            /\ lastOp' = "get"
            /\ removed' = <<>>
            /\ sel = (IF ret # <<>> THEN << get_proxy_dict(ret[1]) >> ELSE <<>>)

SelectableProxies ==
    { <<>>, << ManualProxies >> } \cup { << get_proxy_dict(c) >> : c \in Candidates }

\* base_scraper.py lines 85-88: the delay _rate_limit sleeps for
RateLimitPauseJitterOnly(jitter) == jitter
RateLimitPause(jitter) == RateLimitDelay + jitter

\* base_scraper.py lines 94-96: the loop goes on, and the attempt starts with
\* the pause of _rate_limit
RetryPace ==
    /\ client = "base"
    /\ rq_pc = "head"
    /\ RetryInRange(attempt, max_retries)
    /\ \E jitter \in Jitters : paced' = << RateLimitPause(jitter) >>
    /\ rq_pc' = "paced"
    /\ UNCHANGED <<client, use_proxy, proxy_url, max_retries, fails, attempt,
                   proxies, kwargs_proxies, rq_result, sent, slept, start_pool>>
    /\ UNCHANGED <<schedVars, poolVars, raceVars, searchVars, tagVars, sourceVars, glassVars,
                   saveVars>>

\* base_scraper.py lines 98-105: pick the proxy of this attempt and put it
\* into kwargs when there is one
RetrySelect ==
    /\ client = "base"
    /\ rq_pc = "paced"
    /\ \E sel \in SelectableProxies :
          /\ GetProxyForRequest(sel)
          /\ proxies' = sel
          /\ kwargs_proxies' = (IF sel # <<>> THEN sel ELSE kwargs_proxies)
    /\ rq_pc' = "send"
    /\ UNCHANGED <<client, use_proxy, proxy_url, max_retries, fails, attempt,
                   rq_result, sent, slept, start_pool, paced>>
    /\ UNCHANGED <<disk_ok, now, listed>>
    /\ UNCHANGED <<schedVars, raceVars, searchVars, tagVars, sourceVars, glassVars, saveVars>>

\* base_scraper.py lines 118-127: remove the bad proxy when it came from the
\* proxy manager
EvictBadProxy ==
    IF proxies # <<>> /\ proxy_url = <<>> /\ BadProxyOf(proxies[1]) # <<>>
    THEN /\ RemoveProxyOf(BadProxyOf(proxies[1])[1])
         /\ returned' = <<>>
         /\ lastOp' = "remove"
    ELSE UNCHANGED <<working_proxies, last_fetch, file, evicted, healthy, refreshed, removed,
                        returned, lastOp>>

\* base_scraper.py lines 107-138: the request is sent and its outcome handled
RetrySend ==
    /\ client = "base"
    /\ rq_pc = "send"
    /\ sent' = Append(sent, [outcome |-> OutcomeOf(attempt, Via(kwargs_proxies)),
                             via |-> Via(kwargs_proxies), chosen |-> proxies])
    /\ CASE OutcomeOf(attempt, Via(kwargs_proxies)) = "ok" ->
              \* lines 112-113
              /\ rq_result' = "response"
              /\ rq_pc' = "done"
              /\ UNCHANGED <<attempt, slept>>
              /\ UNCHANGED <<working_proxies, last_fetch, file, evicted, healthy, refreshed, removed,
                        returned, lastOp>>
         [] OutcomeOf(attempt, Via(kwargs_proxies)) = "proxyerr" ->
              \* lines 115-132
              /\ EvictBadProxy
              /\ slept' = (IF attempt < max_retries - 1
                           THEN Append(slept, [attempt |-> attempt, secs |-> Pow2(attempt)])
                           ELSE slept)
              /\ attempt' = attempt + 1
              /\ rq_pc' = "head"
              /\ UNCHANGED rq_result
         [] OTHER ->
              \* lines 134-138
              /\ IF attempt = max_retries - 1
                 THEN /\ rq_result' = "none"
                      /\ rq_pc' = "done"
                      /\ UNCHANGED <<attempt, slept>>
                 ELSE /\ slept' = Append(slept, [attempt |-> attempt, secs |-> Pow2(attempt)])
                      /\ attempt' = attempt + 1
                      /\ rq_pc' = "head"
                      /\ UNCHANGED rq_result
              /\ UNCHANGED <<working_proxies, last_fetch, file, evicted, healthy, refreshed, removed,
                        returned, lastOp>>
    /\ paced' = <<>>
    /\ UNCHANGED <<client, use_proxy, proxy_url, max_retries, fails, proxies,
                   kwargs_proxies, start_pool>>
    /\ UNCHANGED <<disk_ok, now, listed>>
    /\ UNCHANGED <<schedVars, raceVars, searchVars, tagVars, sourceVars, glassVars, saveVars>>

\* base_scraper.py line 140: the loop is over
RetryExhausted ==
    /\ client = "base"
    /\ rq_pc = "head"
    /\ ~RetryInRange(attempt, max_retries)
    /\ rq_result' = "none"
    /\ rq_pc' = "done"
    /\ UNCHANGED <<client, use_proxy, proxy_url, max_retries, fails, attempt,
                   proxies, kwargs_proxies, sent, slept, start_pool, paced>>
    /\ UNCHANGED <<schedVars, poolVars, raceVars, searchVars, tagVars, sourceVars, glassVars, saveVars>>

\* async_scraper.py lines 42-56: one attempt of fetch_with_retry
FetchAttempt ==
    /\ client = "async"
    /\ rq_pc = "head"
    /\ FetchInRange(attempt, max_retries)
    /\ sent' = Append(sent, [outcome |-> OutcomeOf(attempt, <<>>), via |-> <<>>, chosen |-> <<>>])
    /\ CASE OutcomeOf(attempt, <<>>) = "ok" ->
              \* lines 45-46
              /\ rq_result' = "response"
              /\ rq_pc' = "done"
              /\ UNCHANGED <<attempt, slept>>
         [] OutcomeOf(attempt, <<>>) = "http429" ->
              \* lines 47-50
              /\ slept' = Append(slept, [attempt |-> attempt, secs |-> (attempt + 1) * RateLimitUnit])
              /\ attempt' = attempt + 1
              /\ UNCHANGED <<rq_result, rq_pc>>
         [] OutcomeOf(attempt, <<>>) = "http5xx" ->
              \* lines 51-52
              /\ attempt' = attempt + 1
              /\ UNCHANGED <<rq_result, rq_pc, slept>>
         [] OTHER ->
              \* lines 53-56
              /\ slept' = (IF attempt < max_retries - 1
                           THEN Append(slept, [attempt |-> attempt, secs |-> Pow2(attempt)])
                           ELSE slept)
              /\ attempt' = attempt + 1
              /\ UNCHANGED <<rq_result, rq_pc>>
    /\ UNCHANGED <<client, use_proxy, proxy_url, max_retries, fails, proxies,
                   kwargs_proxies, start_pool, paced>>
    /\ UNCHANGED <<schedVars, poolVars, raceVars, searchVars, tagVars, sourceVars, glassVars, saveVars>>

\* async_scraper.py line 58: the loop is over
FetchExhausted ==
    /\ client = "async"
    /\ rq_pc = "head"
    /\ ~FetchInRange(attempt, max_retries)
    /\ rq_result' = "none"
    /\ rq_pc' = "done"
    /\ UNCHANGED <<client, use_proxy, proxy_url, max_retries, fails, attempt,
                   proxies, kwargs_proxies, sent, slept, start_pool, paced>>
    /\ UNCHANGED <<schedVars, poolVars, raceVars, searchVars, tagVars, sourceVars, glassVars, saveVars>>

FetchNext ==
    \/ RetryPace
    \/ RetrySelect
    \/ RetrySend
    \/ RetryExhausted
    \/ FetchAttempt
    \/ FetchExhausted

-----------------------------------------------------------------------------
(* Threads in remove_proxy *)

\* Two request threads (the web application serves /api/scrape requests in
\* threads) share the proxy_manager singleton; nothing in ProxyManager locks.
Threads == { 1, 2 }

\* the singleton after a refresh, each thread about to evict a proxy
RaceInit ==
    /\ working_proxies \in RefreshOutcomes(Candidates)
    /\ last_fetch = 0
    /\ file = NoFile
    /\ disk_ok = FALSE
    /\ now = 0
    /\ listed = Candidates
    /\ evicted = {}
    /\ healthy = Range(working_proxies)
    /\ returned = <<>>
    /\ lastOp = "refresh"
    /\ refreshed = TRUE
    /\ removed = <<>>
    /\ t_pc = [t \in Threads |-> "start"]
    /\ t_arg \in [Threads -> Candidates]
    /\ t_list = [t \in Threads |-> <<>>]

\* proxy_manager.py lines 252-255, right-hand side: the thread reads
\* self.working_proxies and builds the filtered list
RemoveBuild(t) ==
    /\ t_pc[t] = "start"
    /\ t_list' = [t_list EXCEPT ![t] = Without(working_proxies, t_arg[t])]
    /\ t_pc' = [t_pc EXCEPT ![t] = "built"]
    /\ UNCHANGED <<t_arg, poolVars>>
    /\ UNCHANGED <<schedVars, fetchVars, searchVars, tagVars, sourceVars, glassVars, saveVars>>

\* proxy_manager.py line 252, the assignment: the thread stores its list
RemoveStore(t) ==
    /\ t_pc[t] = "built"
    /\ working_proxies' = t_list[t]
    /\ evicted' = evicted \cup { t_arg[t] }
    /\ healthy' = healthy \ { t_arg[t] }
    /\ refreshed' = FALSE
    /\ removed' = << t_arg[t] >>
    /\ returned' = <<>>
    /\ lastOp' = "remove"
    /\ t_pc' = [t_pc EXCEPT ![t] = "done"]
    /\ UNCHANGED <<t_arg, t_list, last_fetch, file, disk_ok, now, listed>>
    /\ UNCHANGED <<schedVars, fetchVars, searchVars, tagVars, sourceVars, glassVars, saveVars>>

\* a get_proxy call of any thread
RaceGet ==
    /\ \E ret \in OptionalProxies :
          /\ GetProxyReturning(ret)
          /\ returned' = ret
    /\ lastOp' = "get"
    /\ removed' = <<>>
    /\ UNCHANGED <<disk_ok, now, listed>>
    /\ UNCHANGED <<schedVars, fetchVars, raceVars, searchVars, tagVars, sourceVars,
                   glassVars, saveVars>>

RaceNext ==
    \/ \E t \in Threads : RemoveBuild(t)
    \/ \E t \in Threads : RemoveStore(t)
    \/ RaceGet

\* no thread in the pool while another component is studied
RaceIdle ==
    /\ t_pc = [t \in Threads |-> "idle"]
    /\ t_arg = [t \in Threads |-> [ip |-> <<"h1">>, port |-> <<"80">>]]
    /\ t_list = [t \in Threads |-> <<>>]

-----------------------------------------------------------------------------
(* AlternativeSearch.search_all *)

\* Search results by the fields search_all looks at; two backends may return
\* the same url under different titles.
Hits == { [url |-> "a", title |-> 1],
          [url |-> "a", title |-> 2],
          [url |-> "b", title |-> 1] }

BackendOrder == << "ddg", "searx", "startpage" >>

\* s[:n]
Take(s, n) == SubSeq(s, 1, IF n < Len(s) THEN n ELSE Len(s))

\* lines 46-58 and 131-143: results are appended one by one and the loop
\* breaks once there are num_results of them
TakeUntil(s, n) == Take(s, IF n < 1 THEN 1 ELSE n)

search_duckduckgo(n) == TakeUntil(pages["ddg"], n)
\* line 96: data.get('results', [])[:num_results] of the answering instance
search_searx(n) == Take(pages["searx"], n)
search_startpage(n) == TakeUntil(pages["startpage"], n)

\* lines 166 and 173: more results are wanted
NotEnoughOrEqual == Len(all_results) <= num_results
NotEnough == Len(all_results) < num_results

\* lines 179-186: the results whose url was not seen before, in order
RECURSIVE UniqueFromLastWins(_, _)
UniqueFromLastWins(res, seen_urls) ==
    IF res = <<>> THEN <<>>
    ELSE IF \E k \in 2..Len(res) : res[k].url = Head(res).url
         THEN UniqueFromLastWins(Tail(res), seen_urls)
         ELSE <<Head(res)>> \o UniqueFromLastWins(Tail(res), seen_urls)
RECURSIVE UniqueFrom(_, _)
UniqueFrom(res, seen_urls) ==
    IF res = <<>> THEN <<>>
    ELSE IF Head(res).url \notin seen_urls
         THEN <<Head(res)>> \o UniqueFrom(Tail(res), seen_urls \cup { Head(res).url })
         ELSE UniqueFrom(Tail(res), seen_urls)

\* a call search_all(query, num_results); the callers ask for 30 or 20
SearchInit ==
    /\ num_results \in 1..MaxWanted
    /\ pages \in [ { BackendOrder[k] : k \in DOMAIN BackendOrder } -> SeqsUpTo(Hits, MaxHits) ]
    /\ all_results = <<>>
    /\ sa_pc = "ddg"
    /\ queried = <<>>
    /\ unique_results = <<>>

\* one backend is queried for `asked` results and answers `got`
Extend(backend, asked, got) ==
    /\ all_results' = all_results \o got
    /\ queried' = Append(queried, [backend |-> backend, total |-> Len(all_results),
                                   asked |-> asked, got |-> got])

\* lines 160-164
SearchDuckDuckGo ==
    /\ sa_pc = "ddg"
    /\ Extend("ddg", num_results, search_duckduckgo(num_results))
    /\ sa_pc' = "searx"
    /\ UNCHANGED <<num_results, pages, unique_results>>
    /\ UNCHANGED <<schedVars, poolVars, fetchVars, raceVars, tagVars, sourceVars,
                   glassVars, saveVars>>

\* lines 166-171
SearchSearx ==
    /\ sa_pc = "searx"
    /\ NotEnough
    /\ Extend("searx", num_results - Len(all_results),
              search_searx(num_results - Len(all_results)))
    /\ sa_pc' = "startpage"
    /\ UNCHANGED <<num_results, pages, unique_results>>
    /\ UNCHANGED <<schedVars, poolVars, fetchVars, raceVars, tagVars, sourceVars,
                   glassVars, saveVars>>

\* lines 173-177
SearchStartpage ==
    /\ sa_pc = "startpage"
    /\ NotEnough
    /\ Extend("startpage", num_results - Len(all_results),
              search_startpage(num_results - Len(all_results)))
    /\ sa_pc' = "dedup"
    /\ UNCHANGED <<num_results, pages, unique_results>>
    /\ UNCHANGED <<schedVars, poolVars, fetchVars, raceVars, tagVars, sourceVars,
                   glassVars, saveVars>>

\* lines 179-188, reached when no further backend is to be queried
ReturnUnique ==
    /\ \/ sa_pc = "dedup"
       \/ (sa_pc \in { "searx", "startpage" } /\ ~NotEnough)
    /\ unique_results' = UniqueFrom(all_results, {})
    /\ sa_pc' = "done"
    /\ UNCHANGED <<num_results, pages, all_results, queried>>
    /\ UNCHANGED <<schedVars, poolVars, fetchVars, raceVars, tagVars, sourceVars,
                   glassVars, saveVars>>

SearchNext ==
    \/ SearchDuckDuckGo
    \/ SearchSearx
    \/ SearchStartpage
    \/ ReturnUnique

\* no search while another component is studied
SearchIdle ==
    /\ num_results = 1
    /\ pages = [b \in { BackendOrder[k] : k \in DOMAIN BackendOrder } |-> <<>>]
    /\ all_results = <<>>
    /\ sa_pc = "idle"
    /\ queried = <<>>
    /\ unique_results = <<>>

-----------------------------------------------------------------------------
(* The keyword taggers *)

\* self.keywords, each keyword a string written as its sequence of tokens
Taxonomy == { <<"Marc", " ", "Benioff">>, <<"Bret", " ", "Taylor">>,
              <<"Agentforce">>, <<"Sierra", ".", "AI">>, <<"Sierra", " ", "AI">>,
              <<"Salesforce">>,
              <<"AI">>, <<"CRM", " ", "agents">>, <<"artificial", " ", "intelligence">> }

\* the query contexts drawn: one outside the taxonomy, one inside
Contexts == { <<"Acme", " ", "Corp">>, <<"Sierra", " ", "AI">> }

\* the tokens the texts drawn are made of
Tokens == { "Acme", " ", "Corp", "corp", "Sierra", "AI" }

\* str.lower(), token by token
Lower(tok) ==
    CASE tok = "Marc" -> "marc"             [] tok = "Benioff" -> "benioff"
      [] tok = "Bret" -> "bret"             [] tok = "Taylor" -> "taylor"
      [] tok = "Agentforce" -> "agentforce" [] tok = "Sierra" -> "sierra"
      [] tok = "AI" -> "ai"                 [] tok = "Salesforce" -> "salesforce"
      [] tok = "CRM" -> "crm"               [] tok = "Acme" -> "acme"
      [] tok = "Corp" -> "corp"             [] OTHER -> tok
LowerStr(s) == [k \in DOMAIN s |-> Lower(s[k])]

\* `sub in text` for strings
Contains(text, sub) ==
    \E i \in 0..(Len(text) - Len(sub)) : \A j \in DOMAIN sub : text[i + j] = sub[j]

\* _extract_keywords: the taxonomy keywords found in the text regardless of
\* case, each once
ExtractKeywords(text) ==
    { k \in Taxonomy : Contains(LowerStr(text), LowerStr(k)) }

\* async_scraper.py lines 172-174
LinkedinTags(found, kw) ==
    IF found = {} /\ kw \notin found THEN found \cup { kw } ELSE found

\* async_scraper.py lines 212-214
GlassdoorTags(found, company) ==
    IF company \notin found THEN found \cup { company } ELSE found

\* glassdoor_scraper.py lines 80-82: the result is skipped when its snippet
\* has no taxonomy keyword and does not name the company
ReviewSkipped(snip, company) ==
    /\ ExtractKeywords(snip) = {}
    /\ ~Contains(LowerStr(snip), LowerStr(company))

\* glassdoor_scraper.py line 96: keywords_found or [company]
ReviewTagsNoFallback(found, company) == found
ReviewTags(found, company) == IF found # {} THEN found ELSE { company }

\* one search result handed to a tagger
TagInit ==
    /\ snippet \in SeqsUpTo(Tokens, MaxWords)
    /\ title \in SeqsUpTo(Tokens, 1)
    /\ keyword \in Contexts
    /\ review_url \in BOOLEAN
    /\ tg_pc = "call"
    /\ tagger = "none"
    /\ emitted = FALSE
    /\ keywords_found = {}

\* async_scraper.py lines 165-203
parse_linkedin_result ==
    /\ tg_pc = "call"
    /\ keywords_found' = LinkedinTags(ExtractKeywords(snippet \o <<" ">> \o title), keyword)
    /\ emitted' = TRUE
    /\ tagger' = "linkedin"
    /\ tg_pc' = "done"
    /\ UNCHANGED <<snippet, title, keyword, review_url>>
    /\ UNCHANGED <<schedVars, poolVars, fetchVars, raceVars, searchVars, sourceVars,
                   glassVars, saveVars>>

\* async_scraper.py lines 205-245
parse_glassdoor_result ==
    /\ tg_pc = "call"
    /\ keywords_found' = GlassdoorTags(ExtractKeywords(snippet \o <<" ">> \o title), keyword)
    /\ emitted' = TRUE
    /\ tagger' = "glassdoor"
    /\ tg_pc' = "done"
    /\ UNCHANGED <<snippet, title, keyword, review_url>>
    /\ UNCHANGED <<schedVars, poolVars, fetchVars, raceVars, searchVars, sourceVars,
                   glassVars, saveVars>>

\* glassdoor_scraper.py lines 70-104: one turn of the loop over the results
\* in _scrape_company_reviews_alternative
CompanyReview ==
    /\ tg_pc = "call"
    /\ IF review_url /\ ~ReviewSkipped(snippet, keyword)
       THEN /\ keywords_found' = ReviewTags(ExtractKeywords(snippet), keyword)
            /\ emitted' = TRUE
       ELSE /\ keywords_found' = {}
            /\ emitted' = FALSE
    /\ tagger' = "company_reviews"
    /\ tg_pc' = "done"
    /\ UNCHANGED <<snippet, title, keyword, review_url>>
    /\ UNCHANGED <<schedVars, poolVars, fetchVars, raceVars, searchVars, sourceVars,
                   glassVars, saveVars>>

TagNext ==
    \/ parse_linkedin_result
    \/ parse_glassdoor_result
    \/ CompanyReview

\* no result being tagged while another component is studied
TagIdle ==
    /\ snippet = <<>>
    /\ title = <<>>
    /\ keyword = <<"Acme", " ", "Corp">>
    /\ review_url = FALSE
    /\ tg_pc = "idle"
    /\ tagger = "none"
    /\ emitted = FALSE
    /\ keywords_found = {}

-----------------------------------------------------------------------------
(* ProxyManager.fetch_proxies *)

SourceOrder == << "free-proxy-list", "proxyscrape", "sslproxies" >>
SourceNames == { SourceOrder[k] : k \in DOMAIN SourceOrder }

\* the proxy dicts a source builds
Listings(name) == { [ip |-> c.ip, port |-> c.port, source |-> name] : c \in Candidates }

\* What a _fetch_from_* call comes to: it never raises (its own try/except),
\* and returns the dicts it had appended when it ended. The two table scrapers
\* can fail only before the first row (request or parse error); the ProxyScrape
\* loop can also fail at an entry of the JSON list that is not an object, after
\* the entries before it were appended.
SourceResults(name) ==
    { [failed |-> FALSE, rows |-> r] : r \in SeqsUpTo(Listings(name), MaxRows) }
    \cup { [failed |-> TRUE, rows |-> r] :
              r \in (IF name = "proxyscrape" THEN SeqsUpTo(Listings(name), MaxRows)
                                             ELSE { <<>> }) }

\* line 59: f"{proxy['ip']}:{proxy['port']}"
ProxyStrIpOnly(proxy) == proxy.ip
ProxyStr(proxy) == proxy.ip \o <<":">> \o proxy.port

\* lines 56-62: the dicts whose ip:port string was not seen before, in order
RECURSIVE UniqueProxies(_, _)
UniqueProxies(all_proxies, seen) ==
    IF all_proxies = <<>> THEN <<>>
    ELSE IF ProxyStr(Head(all_proxies)) \notin seen
         THEN <<Head(all_proxies)>>
                 \o UniqueProxies(Tail(all_proxies), seen \cup { ProxyStr(Head(all_proxies)) })
         ELSE UniqueProxies(Tail(all_proxies), seen)

\* lines 29-53: all_proxies after the three sources
AllProxies ==
    sources["free-proxy-list"].rows \o sources["proxyscrape"].rows
        \o sources["sslproxies"].rows

SourceInit ==
    /\ sources \in [ SourceNames -> UNION { SourceResults(n) : n \in SourceNames } ]
    /\ \A n \in SourceNames : sources[n] \in SourceResults(n)
    /\ unique_proxies = <<>>
    /\ fp_pc = "call"

\* lines 27-65
fetch_proxies ==
    /\ fp_pc = "call"
    /\ unique_proxies' = UniqueProxies(AllProxies, {})
    /\ fp_pc' = "done"
    /\ UNCHANGED sources
    /\ UNCHANGED <<schedVars, poolVars, fetchVars, raceVars, searchVars, tagVars,
                   glassVars, saveVars>>

SourceNext == fetch_proxies

\* no fetch_proxies call while another component is studied
SourceIdle ==
    /\ sources = [n \in SourceNames |-> [failed |-> TRUE, rows |-> <<>>]]
    /\ unique_proxies = <<>>
    /\ fp_pc = "idle"

-----------------------------------------------------------------------------
(* BaseScraper.save_results *)

\* the urls of the records
PostUrls == { "a", "b" }

\* the result dicts drawn for a batch: 'url' and 'keywords_found'
SavedRecords == [ url : PostUrls, keywords_found : { {}, { "Salesforce" } } ]

\* lines 238-261: the results a ScrapedPost is added for. SessionLocal has
\* autoflush=False (database.py line 78), so the query of line 240 sees the
\* committed rows only, never the posts added earlier in this call.
NewPosts(res) == SelectSeq(res, LAMBDA r : r.url \notin db_urls)

\* lines 264-276: the keywords a Keyword row is added for; the query of line
\* 266 sees the committed rows only as well
NewKeywords(res) ==
    { kw \in UNION { NewPosts(res)[k].keywords_found : k \in DOMAIN NewPosts(res) } :
         kw \notin db_keywords }

\* line 278: the flush of db.commit() raises IntegrityError when two of the
\* added rows share a unique column (scraped_posts.url, keywords.keyword)
CommitFails(res) ==
    \E m, n \in DOMAIN NewPosts(res) :
       /\ m # n
       /\ \/ NewPosts(res)[m].url = NewPosts(res)[n].url
          \/ \E kw \in NewKeywords(res) :
                /\ kw \in NewPosts(res)[m].keywords_found
                /\ kw \in NewPosts(res)[n].keywords_found

\* lines 230-290: save_results(res); a failed commit is caught and rolled
\* back, and the count of the added posts is returned all the same
SaveResults(res) ==
    /\ batch' = res
    /\ saved_count' = Len(NewPosts(res))
    /\ sv_calls' = sv_calls + 1
    /\ IF CommitFails(res)
       THEN /\ sv_failed' = TRUE
            /\ UNCHANGED <<db_urls, db_keywords>>
       ELSE /\ sv_failed' = FALSE
            /\ db_urls' = db_urls \cup Urls(NewPosts(res))
            /\ db_keywords' = db_keywords \cup NewKeywords(res)

SaveInit ==
    /\ db_urls \in SUBSET PostUrls
    /\ db_keywords \in SUBSET { "Salesforce" }
    /\ batch \in SeqsUpTo(SavedRecords, MaxBatch)
    /\ saved_count = 0
    /\ sv_calls = 0
    /\ sv_failed = FALSE

\* lines 230-290: the batch is saved, and saved again
save_results ==
    /\ sv_calls < MaxSaves
    /\ SaveResults(batch)
    /\ UNCHANGED <<schedVars, poolVars, fetchVars, raceVars, searchVars, tagVars,
                   sourceVars, glassVars>>

SaveNext == save_results

-----------------------------------------------------------------------------
(* GlassdoorScraper.scrape *)

\* glassdoor_scraper.py line 35
CompaniesToCheck == << "Salesforce", "Sierra AI", "Sierra.AI" >>
\* glassdoor_scraper.py line 43
KeywordsToSearch == << "Marc Benioff", "Agentforce", "Bret Taylor" >>

\* What the parse loop of one search keeps (lines 70-104, 123-163): search_all
\* returns one result per url, and the loop keeps some of them; the records
\* kept here are the ones tagged with the searched term alone.
FoundRecords(term) ==
    { r \in SeqsUpTo([ url : PostUrls, keywords_found : { { term } } ], MaxFound) :
         NoDuplicates(r) /\ \A m, n \in DOMAIN r : m # n => r[m].url # r[n].url }

\* lines 62-67 and 117-121: the proxy is picked once, handed to the
\* AlternativeSearch, and every backend request goes through requests.get with
\* it (alternative_search.py lines 35-40); a request that ends in a ProxyError
\* is caught by the backend's own except, which only prints.
SearchThroughProxy(term) ==
    \E sel \in SelectableProxies :
       /\ GetProxyForRequest(sel)
       /\ proxy_dict' = sel
       /\ \E failed \in (IF sel = <<>> THEN { FALSE } ELSE BOOLEAN) :
             bk_err' = (IF failed THEN sel ELSE <<>>)
       /\ \E found \in FoundRecords(term) : gd_results' = gd_results \o found
       /\ gd_step' = gd_step + 1
       /\ UNCHANGED gd_pc
       /\ UNCHANGED <<disk_ok, now, listed>>
       /\ UNCHANGED <<schedVars, fetchVars, raceVars, searchVars, tagVars, sourceVars, saveVars>>

GlassInit ==
    /\ client = "base"
    /\ use_proxy \in BOOLEAN
    /\ proxy_url \in (IF use_proxy THEN { <<>>, ManualUrl } ELSE { <<>> })
    /\ max_retries = 0
    /\ fails = <<>>
    /\ attempt = 0
    /\ rq_pc = "idle"
    /\ proxies = <<>>
    /\ kwargs_proxies = <<>>
    /\ rq_result = "pending"
    /\ sent = <<>>
    /\ slept = <<>>
    /\ start_pool = <<>>
    /\ paced = <<>>
    /\ listed \in (IF use_proxy /\ proxy_url = <<>>
                   THEN { {}, { c \in Candidates : c.port = <<"80">> } }
                   ELSE { {} })
    /\ working_proxies \in RefreshOutcomes(listed)
    /\ last_fetch \in (IF use_proxy /\ proxy_url = <<>>
                       THEN (IF working_proxies = <<>> THEN { 0 } ELSE { NoTime, 0 })
                       ELSE { NoTime })
    /\ file = NoFile
    /\ disk_ok = FALSE
    /\ now = 0
    /\ evicted = {}
    /\ healthy = Range(working_proxies)
    /\ returned = <<>>
    /\ lastOp = "init"
    /\ refreshed = FALSE
    /\ removed = <<>>
    /\ gd_pc = "run"
    /\ gd_step = 0
    /\ gd_results = <<>>
    /\ proxy_dict = <<>>
    /\ bk_err = <<>>

\* lines 37-39: one company of companies_to_check
ScrapeCompanyReviews ==
    /\ gd_pc = "run"
    /\ gd_step < Len(CompaniesToCheck)
    /\ SearchThroughProxy(CompaniesToCheck[gd_step + 1])

\* lines 42-45: one keyword of keywords_to_search
ScrapeMentions ==
    /\ gd_pc = "run"
    /\ gd_step >= Len(CompaniesToCheck)
    /\ gd_step < Len(CompaniesToCheck) + Len(KeywordsToSearch)
    /\ SearchThroughProxy(KeywordsToSearch[gd_step - Len(CompaniesToCheck) + 1])

\* lines 49-53: the results are saved when there are any, and returned
ScrapeReturn ==
    /\ gd_pc = "run"
    /\ gd_step = Len(CompaniesToCheck) + Len(KeywordsToSearch)
    /\ gd_pc' = "done"
    /\ IF gd_results # <<>> THEN SaveResults(gd_results) ELSE UNCHANGED saveVars
    /\ UNCHANGED <<gd_step, gd_results, proxy_dict, bk_err>>
    /\ UNCHANGED <<schedVars, poolVars, fetchVars, raceVars, searchVars, tagVars, sourceVars>>

GlassNext ==
    \/ ScrapeCompanyReviews
    \/ ScrapeMentions
    \/ ScrapeReturn

\* no scrape run while another component is studied
GlassIdle ==
    /\ gd_pc = "idle"
    /\ gd_step = 0
    /\ gd_results = <<>>
    /\ proxy_dict = <<>>
    /\ bk_err = <<>>

\* no save_results call while another component is studied
SaveIdle ==
    /\ db_urls = {}
    /\ db_keywords = {}
    /\ batch = <<>>
    /\ saved_count = 0
    /\ sv_calls = 0
    /\ sv_failed = FALSE

-----------------------------------------------------------------------------
(* Specifications *)

SchedNext ==
    \/ TaskStart
    \/ TaskFinish
    \/ ConsumeBatch
    \/ ConsumeException

\* the components that are idle in every specification of an earlier component
RestIdle == SourceIdle /\ GlassIdle /\ SaveIdle

Init == SchedInit /\ PoolIdle /\ FetchIdle /\ RaceIdle /\ SearchIdle /\ TagIdle /\ RestIdle

Spec == Init /\ [][SchedNext]_vars

\* Every started task ends (per-call timeouts, bounded retries), the event
\* loop runs every ready coroutine, and the semaphore wakes its waiters.
FairSpec ==
    /\ Spec
    /\ WF_vars(TaskStart)
    /\ WF_vars(TaskFinish)
    /\ WF_vars(ConsumeBatch \/ ConsumeException)

PoolSpecInit ==
    PoolInit /\ SchedIdle /\ FetchIdle /\ RaceIdle /\ SearchIdle /\ TagIdle /\ RestIdle

PoolSpec == PoolSpecInit /\ [][PoolNext]_vars

FetchSpecInit == FetchInit /\ SchedIdle /\ RaceIdle /\ SearchIdle /\ TagIdle /\ RestIdle

FetchSpec == FetchSpecInit /\ [][FetchNext]_vars

\* a fetch that can take a step takes one: the calling thread or coroutine runs on
FairFetchSpec == FetchSpec /\ WF_vars(FetchNext)

RaceSpecInit == RaceInit /\ SchedIdle /\ FetchIdle /\ SearchIdle /\ TagIdle /\ RestIdle

\* The interpreter may switch threads between any two bytecodes, so between
\* the read and the store of remove_proxy.
RaceSpec == RaceSpecInit /\ [][RaceNext]_vars

SearchSpecInit ==
    SearchInit /\ SchedIdle /\ PoolIdle /\ FetchIdle /\ RaceIdle /\ TagIdle /\ RestIdle

SearchSpec == SearchSpecInit /\ [][SearchNext]_vars

TagSpecInit ==
    TagInit /\ SchedIdle /\ PoolIdle /\ FetchIdle /\ RaceIdle /\ SearchIdle /\ RestIdle

TagSpec == TagSpecInit /\ [][TagNext]_vars

SourceSpecInit ==
    /\ SourceInit /\ GlassIdle /\ SaveIdle
    /\ SchedIdle /\ PoolIdle /\ FetchIdle /\ RaceIdle /\ SearchIdle /\ TagIdle

SourceSpec == SourceSpecInit /\ [][SourceNext]_vars

GlassSpecInit ==
    /\ GlassInit /\ SourceIdle /\ SaveIdle
    /\ SchedIdle /\ RaceIdle /\ SearchIdle /\ TagIdle

GlassSpec == GlassSpecInit /\ [][GlassNext]_vars

SaveSpecInit ==
    /\ SaveInit /\ SourceIdle /\ GlassIdle
    /\ SchedIdle /\ PoolIdle /\ FetchIdle /\ RaceIdle /\ SearchIdle /\ TagIdle

SaveSpec == SaveSpecInit /\ [][SaveNext]_vars

-----------------------------------------------------------------------------
(* Claims about the proxy pool *)

\* C3: a proxy evicted with remove_proxy is never returned by get_proxy again
\* before the next refresh_proxies, whatever other pool operations
\* (get_proxy, remove_proxy, load_proxies, construction of a scraper) come in
\* between.
C3_EvictedNotReturned ==
    (lastOp = "get" /\ returned # <<>>) => returned[1] \notin evicted

\* C11: whatever pool operations came before, the proxy get_proxy returns is
\* in the working set of that moment, has passed a health probe and has not
\* been given to remove_proxy since it passed.
C11_OnlyHealthyReturned ==
    (lastOp = "get" /\ returned # <<>>) =>
        /\ returned[1] \in Range(working_proxies)
        /\ returned[1] \in healthy

\* C12: once two concurrent remove_proxy calls for different proxies have
\* both returned, and until the next refresh, neither proxy is in the working
\* set and neither is returned by get_proxy.
C12_NoLostEviction ==
    (/\ \A t \in Threads : t_pc[t] = "done"
     /\ t_arg[1] # t_arg[2]
     /\ \A t \in Threads : t_arg[t] \in evicted) =>
        /\ \A t \in Threads : t_arg[t] \notin Range(working_proxies)
        /\ (lastOp = "get" /\ returned # <<>>) =>
              \A t \in Threads : returned[1] # t_arg[t]

\* the time since which the working set is served without a refresh: the
\* last refresh, or the start of the process when there was none
ServedSince == IF last_fetch = NoTime THEN 0 ELSE last_fetch

\* C21: a get_proxy call refreshes the pool before it returns exactly when the
\* working set is empty or has been served without a refresh for longer than
\* the refresh interval, whether the set came from refresh_proxies or from
\* load_proxies.
C21_RefreshWhenDue ==
    [][ (lastOp' = "get" /\ now' = now) =>
            (refreshed' <=> (\/ working_proxies = <<>>
                             \/ now - ServedSince > FetchInterval)) ]_vars

C28_RemoveExactlyMatching ==
    [][ (lastOp' = "remove" /\ now' = now /\ removed' # <<>>) =>
            LET Other(p) == p.ip # removed'[1].ip \/ p.port # removed'[1].port
            IN  /\ working_proxies' = SelectSeq(working_proxies, Other)
                /\ last_fetch' = last_fetch
                /\ file' = file
                /\ removed'[1] \notin Range(working_proxies) =>
                       working_proxies' = working_proxies ]_vars

C28_Witness ==
    /\ lastOp = "remove"
    /\ removed # <<>>
    /\ removed[1] \in Range(Loaded(file))
    /\ removed[1] \notin Range(working_proxies)
    /\ last_fetch # NoTime
    /\ \E p \in Range(working_proxies) : p.ip = removed[1].ip
    /\ Len(working_proxies) >= 1

-----------------------------------------------------------------------------
(* Claims about the fetch clients *)

\* the requests of the fetch that failed otherwise than by a proxy error
RECURSIVE OrdinaryFailures(_)
OrdinaryFailures(reqs) ==
    IF reqs = <<>> THEN 0
    ELSE (IF Head(reqs).outcome \notin { "ok", "proxyerr" } THEN 1 ELSE 0)
         + OrdinaryFailures(Tail(reqs))

\* C4: in _retry_request an attempt that fails with a ProxyError does not
\* consume the retry budget: the fetch gives up only after max_retries
\* attempts have failed for other reasons.
C4_ProxyErrorsKeepBudget ==
    (client = "base" /\ rq_pc = "done" /\ rq_result = "none") =>
        OrdinaryFailures(sent) >= max_retries

\* C5: for both clients, a fetch whose first k < max_retries requests fail
\* transiently and whose next request succeeds returns the response, and a
\* fetch whose requests fail max_retries + 1 times returns None.
C5_RetryThenSuccess ==
    rq_pc = "done" =>
        /\ (/\ Len(fails) < max_retries
            /\ \A k \in DOMAIN fails : fails[k] \in Transient)
              => rq_result = "response"
        /\ Len(fails) > max_retries => rq_result = "none"

C5_Witness ==
    /\ rq_pc = "done"
    /\ client = "base"
    /\ rq_result = "response"
    /\ Len(fails) >= 2
    /\ Len(fails) = max_retries - 1
    /\ \A k \in DOMAIN fails : fails[k] \in Transient

\* whether `via` is the proxies dict of a proxy the pool supplies
PoolProxiesOf(via) == { c \in Candidates : via = << get_proxy_dict(c) >> }

\* C16: with pool-managed proxies, once an attempt sent through a pool proxy
\* has failed with a ProxyError, that proxy is not in the working set when the
\* next attempt selects a proxy, nor when the fetch returns after a last
\* attempt that failed so.
C16_BadProxyEvicted ==
    (/\ client = "base" /\ use_proxy /\ proxy_url = <<>>
     /\ rq_pc \in { "head", "done" }
     /\ sent # <<>>
     /\ sent[Len(sent)].outcome = "proxyerr") =>
        \A c \in PoolProxiesOf(sent[Len(sent)].via) : c \notin Range(working_proxies)

C16_Witness ==
    /\ client = "base" /\ use_proxy /\ proxy_url = <<>>
    /\ rq_pc = "done"
    /\ max_retries >= 2
    /\ Len(sent) = max_retries
    /\ sent[Len(sent)].outcome = "proxyerr"
    /\ sent[Len(sent)].chosen = sent[Len(sent)].via
    /\ \E c \in PoolProxiesOf(sent[Len(sent)].via) :
          /\ c \in Range(start_pool)
          /\ c \in evicted
          /\ c \notin Range(working_proxies)
    /\ working_proxies # <<>>

\* C17: with pool-managed proxies every request goes through the proxy that
\* was selected for its attempt, and directly when none was selected.
C17_SentThroughSelected ==
    (client = "base" /\ use_proxy /\ proxy_url = <<>>) =>
        \A n \in DOMAIN sent : sent[n].via = sent[n].chosen

\* the seconds slept after the request of 0-based attempt a (0 when none)
DelayAfter(a) ==
    IF \E k \in DOMAIN slept : slept[k].attempt = a
    THEN slept[CHOOSE k \in DOMAIN slept : slept[k].attempt = a].secs
    ELSE 0

\* the request of attempt a failed with one of `kinds` and another request
\* followed it
FailedAndRetried(a, kinds) ==
    /\ a + 2 \in DOMAIN sent
    /\ sent[a + 1].outcome \in kinds

\* C13: within one fetch, of two transient failures that were each followed
\* by a retry, the later one is followed by a delay at least as long as the
\* earlier one.
C13_BackoffNonDecreasing ==
    \A a, b \in 0..MaxRetries :
        (a < b /\ FailedAndRetried(a, Transient) /\ FailedAndRetried(b, Transient)) =>
            DelayAfter(a) <= DelayAfter(b)

\* C18: for both clients, a 429 response that is followed by another attempt
\* is followed by a delay linear in the attempt index, (a + 1) times the
\* rate-limit unit, not the exponential delay of a transient failure.
C18_RateLimitLinear ==
    \A a \in 0..MaxRetries :
        FailedAndRetried(a, { "http429" }) => DelayAfter(a) = (a + 1) * RateLimitUnit

\* C19: for both clients, a timeout, connection error or 5xx response at
\* attempt a that is followed by another attempt is followed by a delay of
\* 2^a seconds.
C19_ExponentialBackoff ==
    \A a \in 0..MaxRetries :
        FailedAndRetried(a, Transient) => DelayAfter(a) = Pow2(a)

\* C10: when every proxy-list source yields no usable candidate, the refresh
\* leaves the pool empty, get_proxy returns None, and _retry_request in proxy
\* mode sends each request without a proxy and returns normally.
C10_EmptyPoolNoProxy ==
    (client = "base" /\ use_proxy /\ proxy_url = <<>> /\ listed = {}) =>
        /\ working_proxies = <<>>
        /\ lastOp = "get" => returned = <<>>
        /\ \A n \in DOMAIN sent : sent[n].via = <<>>
        /\ rq_pc = "done" => rq_result \in { "response", "none" }

C10_Witness ==
    /\ client = "base"
    /\ use_proxy
    /\ proxy_url = <<>>
    /\ listed = {}
    /\ lastOp = "get"
    /\ last_fetch = now
    /\ Len(sent) >= 2
    /\ rq_pc = "done"
    /\ rq_result = "response"

\* C29: every attempt of _retry_request, the first and every retry, pauses
\* for at least the rate-limit delay before it selects its proxy and before
\* it sends its request; the pause is the one of that attempt.
C29_PacedBeforeSelectAndSend ==
    [][ (client = "base" /\ (\/ rq_pc = "paced" /\ rq_pc' = "send"
                             \/ Len(sent') = Len(sent) + 1)) =>
            /\ paced # <<>>
            /\ paced[1] >= RateLimitDelay
            /\ rq_pc' = "send" => sent' = sent ]_vars

C29_Witness ==
    /\ client = "base"
    /\ rq_pc = "send"
    /\ attempt >= 1
    /\ Len(sent) = attempt
    /\ paced = << RateLimitDelay + 1 >>

\* C30: a fetch of either client ends; it sends at most max_retries requests,
\* whatever their outcomes were, and ends with a response or with None; with
\* max_retries <= 0 it sends nothing and ends with None.
C30_BoundedAttempts ==
    /\ <>(rq_pc = "done")
    /\ [](Len(sent) <= (IF max_retries > 0 THEN max_retries ELSE 0))
    /\ [](rq_pc = "done" =>
            /\ rq_result \in { "response", "none" }
            /\ rq_result = "response" => sent # <<>> /\ sent[Len(sent)].outcome = "ok"
            /\ max_retries <= 0 => rq_result = "none")

C30_Witness ==
    /\ rq_pc = "done"
    /\ rq_result = "none"
    /\ max_retries >= 2
    /\ Len(sent) = max_retries
    /\ \E k \in DOMAIN sent : sent[k].outcome = "proxyerr"
    /\ \E k \in DOMAIN sent : sent[k].outcome \notin { "proxyerr", "ok" }

-----------------------------------------------------------------------------
(* Claims about collect_all_data *)

\* C1: at every moment, also after the early exit, at most 10 search tasks
\* hold the semaphore, however many tasks are scheduled and in whatever order
\* they complete.
C1_AtMostCapInFlight == running <= SemaphoreCap

C1_Witness ==
    /\ pc = "done"
    /\ earlyExit
    /\ running = SemaphoreCap
    /\ pending > 0

\* the first post of `res` that carries url u
FirstWithUrl(res, u) ==
    res[CHOOSE k \in DOMAIN res :
            /\ res[k].url = u
            /\ \A j \in 1..(k - 1) : res[j].url # u]

\* C2: the returned list never holds two posts with the same url, and the
\* post kept for a url is the first one with that url in completion order.
C2_UniqueFirstWins ==
    pc = "done" =>
        /\ \A m, n \in DOMAIN collected_posts :
              m # n => collected_posts[m].url # collected_posts[n].url
        /\ \A m \in DOMAIN collected_posts :
              collected_posts[m] = FirstWithUrl(results, collected_posts[m].url)

C2_Witness ==
    /\ pc = "done"
    /\ \E m, n \in DOMAIN results :
          /\ m < n
          /\ results[m].url = results[n].url
          /\ results[m] # results[n]
          /\ \E k \in DOMAIN collected_posts : collected_posts[k] = results[m]

\* C6 as stated: when the loop stops early, the number R of results collected
\* satisfies T <= R < T + 10.
C6_OvershootBelowCap ==
    earlyExit =>
        /\ target_count <= Len(results)
        /\ Len(results) < target_count + SemaphoreCap

\* C6 amended: when the loop stops early, R = len(results) satisfies T <= R
\* and R minus the size of the last awaited batch is below T (the overshoot
\* is bounded by the last batch, not by the concurrency cap); the returned
\* list holds at most T posts.
C6_OvershootBelowLastBatch ==
    earlyExit =>
        /\ target_count <= Len(results)
        /\ Len(results) - lastBatchLen < target_count
        /\ Len(collected_posts) <= target_count

C6_Witness ==
    /\ earlyExit
    /\ Len(results) > target_count
    /\ lastBatchLen > 1

\* C7: the loop stops awaiting once the number of unique urls reaches the
\* target, and does not stop while that number is below the target and tasks
\* remain to be awaited.
C7_StopsOnUniqueCount ==
    /\ pc = "loop" => Cardinality(Urls(results)) < target_count
    /\ (pc = "done" /\ consumed < NumTasks) =>
           Cardinality(Urls(results)) >= target_count

\* C8: collect_all_data always terminates; once the target is reached it
\* returns at once, without the remaining tasks, and when the target is never
\* reached it returns after every scheduled task has been awaited.
C8_Terminates ==
    /\ <>(pc = "done")
    /\ [](earlyExit => pc = "done")
    /\ []((pc = "done" /\ ~earlyExit) => consumed = NumTasks)

C8_Witness ==
    /\ pc = "done"
    /\ earlyExit
    /\ consumed < NumTasks
    /\ running > 0
    /\ pending > 0

\* C9: an exception of one task is caught where its result is awaited: it
\* adds no result, the earlier results are kept, the remaining tasks are
\* still awaited and nothing propagates to the caller.
C9_ExceptionIsolated ==
    [][ (pc = "loop" /\ lastEvent' = "exc" /\ consumed' = consumed + 1) =>
            /\ results' = results
            /\ pc' \in {"loop", "done"}
            /\ (consumed' < NumTasks => pc' = "loop") ]_vars

C9_Witness ==
    /\ lastEvent = "exc"
    /\ Len(results) > 0
    /\ pc = "loop"
    /\ consumed < NumTasks

-----------------------------------------------------------------------------
(* Claims about search_all *)

\* C14: the list search_all returns holds exactly one result for every url
\* the backends returned; it is the one of the first backend, in priority
\* order, that returned the url (its first occurrence there), and the kept
\* results stand in the order of their first occurrences.
C14_OnePerUrlFirstWins ==
    sa_pc = "done" =>
        /\ \A m, n \in DOMAIN unique_results :
              m # n => unique_results[m].url # unique_results[n].url
        /\ \A k \in DOMAIN queried : \A u \in Urls(queried[k].got) :
              \E m \in DOMAIN unique_results : unique_results[m].url = u
        /\ \A m \in DOMAIN unique_results :
              \E k \in DOMAIN queried :
                 /\ unique_results[m].url \in Urls(queried[k].got)
                 /\ \A j \in 1..(k - 1) : unique_results[m].url \notin Urls(queried[j].got)
                 /\ unique_results[m] = FirstWithUrl(queried[k].got, unique_results[m].url)
        /\ \A m, n \in DOMAIN unique_results :
              m < n => \E i, j \in DOMAIN all_results :
                          /\ i < j
                          /\ all_results[i] = unique_results[m]
                          /\ all_results[j] = unique_results[n]
                          /\ \A h \in 1..(j - 1) : all_results[h].url # unique_results[n].url

C14_Witness ==
    /\ sa_pc = "done"
    /\ Len(queried) >= 2
    /\ \E r \in Range(queried[1].got) : \E s \in Range(queried[2].got) :
          /\ r.url = s.url
          /\ r # s
          /\ r \in Range(unique_results)
          /\ s \notin Range(unique_results)
    /\ Len(unique_results) >= 2

\* C20: the backends are queried in the order DuckDuckGo, Searx, Startpage;
\* a backend is queried only while fewer than num_results results have been
\* gathered, and after the total has reached num_results no backend is queried.
C20_OrderAndShortCircuit ==
    /\ Len(queried) <= Len(BackendOrder)
    /\ \A k \in DOMAIN queried :
          /\ queried[k].backend = BackendOrder[k]
          /\ queried[k].total < num_results
          /\ queried[k].total + Len(queried[k].got) >= num_results => k = Len(queried)

C20_Witness ==
    /\ sa_pc = "done"
    /\ Len(queried) = 2
    /\ queried[1].got # <<>>
    /\ Len(all_results) = num_results
    /\ pages["startpage"] # <<>>

-----------------------------------------------------------------------------
(* Claims about the keyword taggers *)

\* the text a tagger searches for taxonomy keywords
Examined ==
    IF tagger = "company_reviews" THEN snippet ELSE snippet \o <<" ">> \o title

\* C15: a record is never emitted with an empty keywords_found, and when the
\* text matches no taxonomy keyword the record's keywords_found is exactly the
\* context keyword; for parse_linkedin_result, parse_glassdoor_result and
\* _scrape_company_reviews_alternative.
C15_FallbackTag ==
    (tg_pc = "done" /\ emitted) =>
        /\ keywords_found # {}
        /\ ExtractKeywords(Examined) = {} => keywords_found = { keyword }

C15_Witness ==
    /\ tg_pc = "done"
    /\ emitted
    /\ tagger = "company_reviews"
    /\ keyword = <<"Acme", " ", "Corp">>
    /\ ExtractKeywords(snippet) = {}
    /\ keywords_found = { <<"Acme", " ", "Corp">> }

-----------------------------------------------------------------------------
(* Claims about fetch_proxies *)

\* the first dict of `rows` with the ip and port of p
FirstWithAddr(rows, p) ==
    rows[CHOOSE k \in DOMAIN rows :
            /\ rows[k].ip = p.ip /\ rows[k].port = p.port
            /\ \A j \in 1..(k - 1) : rows[j].ip # p.ip \/ rows[j].port # p.port]

\* C22: the list fetch_proxies returns holds no two candidates with the same
\* ip and port; the entry kept for an ip:port is the first one in source
\* order, and every ip:port a source returned is in the list.
C22_UniqueFirstSource ==
    fp_pc = "done" =>
        /\ \A m, n \in DOMAIN unique_proxies :
              m # n => \/ unique_proxies[m].ip # unique_proxies[n].ip
                       \/ unique_proxies[m].port # unique_proxies[n].port
        /\ \A m \in DOMAIN unique_proxies :
              unique_proxies[m] = FirstWithAddr(AllProxies, unique_proxies[m])
        /\ \A k \in DOMAIN AllProxies : \E m \in DOMAIN unique_proxies :
              /\ unique_proxies[m].ip = AllProxies[k].ip
              /\ unique_proxies[m].port = AllProxies[k].port

C22_Witness ==
    /\ fp_pc = "done"
    /\ Len(unique_proxies) >= 2
    /\ \E p \in Range(sources["free-proxy-list"].rows) :
       \E q \in Range(sources["sslproxies"].rows) :
          /\ p.ip = q.ip /\ p.port = q.port
          /\ p \in Range(unique_proxies)
          /\ q \notin Range(unique_proxies)

\* C23: fetch_proxies returns (it does not raise) the candidates of exactly
\* the sources that succeeded, so nothing of a source that failed, and the
\* empty list when every source failed.
C23_FailedSourcesSkipped ==
    fp_pc = "done" =>
        /\ \A m \in DOMAIN unique_proxies : ~sources[unique_proxies[m].source].failed
        /\ \A n \in SourceNames : ~sources[n].failed =>
              \A k \in DOMAIN sources[n].rows : \E m \in DOMAIN unique_proxies :
                 /\ unique_proxies[m].ip = sources[n].rows[k].ip
                 /\ unique_proxies[m].port = sources[n].rows[k].port
        /\ (\A n \in SourceNames : sources[n].failed) => unique_proxies = <<>>

-----------------------------------------------------------------------------
(* Claims about GlassdoorScraper.scrape and save_results *)

\* C24: the list one scrape run returns, which is the batch it hands to
\* save_results, holds no two records with the same url.
C24_BatchUrlsUnique ==
    gd_pc = "done" =>
        \A m, n \in DOMAIN gd_results : m # n => gd_results[m].url # gd_results[n].url

\* C25: a save_results call leaves one row for every url of the rows stored
\* before and of the batch, does not fail on a url that is stored already or
\* occurs twice in the batch, and stores nothing new when the same batch is
\* saved a second time.
C25_SaveIdempotentByUrl ==
    [][ (sv_calls' = sv_calls + 1) =>
            /\ db_urls' = db_urls \cup Urls(batch')
            /\ ~sv_failed'
            /\ (sv_calls >= 1 /\ batch' = batch) => db_urls' = db_urls ]_vars

\* C26: when a backend request of search_all made through a proxy of the pool
\* has failed with a ProxyError, that proxy is not in the working set.
C26_BackendProxyEvicted ==
    (gd_pc = "run" /\ bk_err # <<>>) =>
        \A c \in PoolProxiesOf(bk_err) : c \notin Range(working_proxies)

====
